---- MODULE Spec2Model ----
(***************************************************************************)
(* GitSavvy common/ui.py: the Interface class (template rendering with     *)
(* region tracking, composite partials) and the commands that apply a      *)
(* rendering to a view.                                                    *)
(*                                                                         *)
(* Text is a sequence of one-character strings.  Offsets are 0-based and   *)
(* ranges half-open, as in the Python source.  Partial keys are            *)
(* one-character identifiers.                                              *)
(***************************************************************************)
EXTENDS Integers, Sequences, FiniteSets, TLC

VARIABLES
    tmpl,           \* rendering specification: the template
    partials,       \* rendering specification: the registry, keys in declaration order
    tbl,            \* rendering specification: what each producer returns
    res,            \* rendering specification: outcome of render
    res2,           \* rendering specification: outcome for the mapping in another order
    activeWindow,   \* sublime.active_window()
    views,          \* the views of the editor, by view id
    interfaces,     \* the module's registry: view id -> interface instance, 0 for no entry
    inst,           \* the interface instances, by identity
    tasks,          \* callbacks queued by sublime.set_timeout_async
    last,           \* what the last handler did
    main,           \* the construction in progress on the main path
    adj,            \* adjuster specification: the arguments of adjust and its result
    keyed           \* content specification: outcome of get_keyed_content

rvars == <<tmpl, partials, tbl, res, res2>>
lvars == <<activeWindow, views, interfaces, inst, tasks, last, main, adj, keyed>>
ovars == <<tmpl, partials, tbl, res, res2, main, adj, keyed>>
vars == <<tmpl, partials, tbl, res, res2,
          activeWindow, views, interfaces, inst, tasks, last, main, adj, keyed>>

(***************************************************************************)
(* Bounds                                                                  *)
(***************************************************************************)
MaxSegs == 3 \* segments a template is built from
MaxSubst == 8 \* substitutions followed beyond those of a returning render
NumWindows == 2 \* editor windows
MaxViews == 2 \* views ever created
MaxTasks == 1 \* callbacks waiting in the asynchronous queue
MaxUpdates == 1 \* point updates of a view between two renders
MaxRegions == 2 \* regions in a list handed to adjust
MaxPos == 2 \* largest offset and largest length handed to adjust

(***************************************************************************)
(* Strings                                                                 *)
(***************************************************************************)
RECURSIVE Concat(_)
Concat(ss) == IF ss = <<>> THEN <<>> ELSE Head(ss) \o Concat(Tail(ss))

\* Python s[i:j] for a sequence s, with Python's clamping and negative offsets
Slice(s, i, j) ==
    LET n == Len(s)
        norm(k) == IF k < 0 THEN (IF n + k < 0 THEN 0 ELSE n + k)
                   ELSE (IF k > n THEN n ELSE k)
    IN SubSeq(s, norm(i) + 1, norm(j))

\* str.find(pat, start): lowest 0-based offset >= start where pat occurs, else -1
Find(text, pat, start) ==
    LET cands == {i \in start..(Len(text) - Len(pat)) :
                      SubSeq(text, i + 1, i + Len(pat)) = pat}
    IN IF cands = {} THEN -1
       ELSE CHOOSE i \in cands : \A j \in cands : i <= j

\* "{" + key + "}"
Interpol(key) == <<"{", key, "}">>

(***************************************************************************)
(* Producer outputs: a string, a (sub_template, complex_partials) tuple,   *)
(* or an exception.                                                        *)
(***************************************************************************)
Str(t) == [kind |-> "str", text |-> t, nested |-> <<>>]
Tuple(t, fns) == [kind |-> "tuple", text |-> t, nested |-> fns]
Raise == [kind |-> "raise", text |-> <<>>, nested |-> <<>>]

\* len(new_content): the string's length, or 2 for a tuple left in the mapping
ContentLen(v) == IF v.kind = "tuple" THEN 2 ELSE Len(v.text)

(***************************************************************************)
(* Interface.adjust                                                        *)
(***************************************************************************)
\* adjust with the sign of the shift reversed
adjust_reversed(regions, idx, orig_len, new_len) ==
    LET diff == orig_len - new_len
    IN [n \in 1..Len(regions) |->
           IF regions[n].a > idx
           THEN [regions[n] EXCEPT !.a = @ + diff, !.b = @ + diff]
           ELSE regions[n]]

\* adjust that also shifts a region starting at idx
adjust_inclusive(regions, idx, orig_len, new_len) ==
    LET diff == new_len - orig_len
    IN [n \in 1..Len(regions) |->
           IF regions[n].a >= idx
           THEN [regions[n] EXCEPT !.a = @ + diff, !.b = @ + diff]
           ELSE regions[n]]

\* adjust that shifts every region, wherever it starts
adjust_everywhere(regions, idx, orig_len, new_len) ==
    LET diff == new_len - orig_len
    IN [n \in 1..Len(regions) |->
           [regions[n] EXCEPT !.a = @ + diff, !.b = @ + diff]]

adjust(regions, idx, orig_len, new_len) ==
    LET diff == new_len - orig_len
    IN [n \in 1..Len(regions) |->
           IF regions[n].a > idx
           THEN [regions[n] EXCEPT !.a = @ + diff, !.b = @ + diff]
           ELSE regions[n]]

(***************************************************************************)
(* Interface.get_keyed_content                                             *)
(***************************************************************************)
\* keyed_content[key] = value on an OrderedDict held as a sequence of entries
SetItem(kc, key, value) ==
    IF \E n \in 1..Len(kc) : kc[n].key = key
    THEN [n \in 1..Len(kc) |->
             IF kc[n].key = key THEN [kc[n] EXCEPT !.value = value] ELSE kc[n]]
    ELSE Append(kc, [key |-> key, value |-> value])

\* for render_fn in complex_partials: keyed_content[render_fn.key] = render_fn()
\* calls lists the producers invoked so far
RECURSIVE AddNested(_, _, _, _)
AddNested(kc, fns, table, calls) ==
    IF fns = <<>> THEN [exc |-> "", kc |-> kc, calls |-> calls]
    ELSE IF table[Head(fns)].kind = "raise"
    THEN [exc |-> "producer", kc |-> kc, calls |-> Append(calls, Head(fns))]
    ELSE AddNested(SetItem(kc, Head(fns), table[Head(fns)]), Tail(fns), table,
                   Append(calls, Head(fns)))

\* The OrderedDict implementations the loop "for key in keyed_content" can
\* run on: "py" is the linked-list iterator of Python 3.3/3.4 (the interpreter
\* embedded in Sublime Text 3), which walks on into entries appended during
\* the loop; "c" is the C iterator of later interpreters, which raises
\* RuntimeError at the next step after an insertion and has already finished
\* when the insertion happens at the last entry.
OdictImpls == {"py", "c"}

RECURSIVE ExpandLoop(_, _, _, _, _)
ExpandLoop(kc, i, table, impl, calls) ==
    IF i > Len(kc) THEN [exc |-> "", kc |-> kc, calls |-> calls]
    ELSE LET output == kc[i].value IN
         IF output.kind = "tuple"
         THEN LET kc1 == [kc EXCEPT ![i].value = Str(output.text)]
                  r == AddNested(kc1, output.nested, table, calls)
              IN IF r.exc # "" THEN r
                 ELSE IF impl = "c" /\ i = Len(kc) THEN r
                 ELSE IF impl = "c" /\ Len(r.kc) > Len(kc)
                      THEN [exc |-> "RuntimeError", kc |-> r.kc, calls |-> r.calls]
                 ELSE ExpandLoop(r.kc, i + 1, table, impl, r.calls)
         ELSE ExpandLoop(kc, i + 1, table, impl, calls)

\* the registered producers run in registry order, up to the first that raises
Invoked(parts, table) ==
    IF \E n \in 1..Len(parts) : table[parts[n]].kind = "raise"
    THEN SubSeq(parts, 1, CHOOSE n \in 1..Len(parts) :
                             /\ table[parts[n]].kind = "raise"
                             /\ \A m \in 1..(n - 1) : table[parts[m]].kind # "raise")
    ELSE parts

get_keyed_content(parts, table, impl) ==
    IF \E n \in 1..Len(parts) : table[parts[n]].kind = "raise"
    THEN [exc |-> "producer", kc |-> <<>>, calls |-> Invoked(parts, table)]
    ELSE ExpandLoop([n \in 1..Len(parts) |->
                        [key |-> parts[n], value |-> table[parts[n]]]],
                    1, table, impl, parts)

(***************************************************************************)
(* Interface.render, lines 99-113: the substitution loop                   *)
(***************************************************************************)
cursor == 0

\* the loop for one key with "if" in place of "while": only the first
\* occurrence is substituted
SubstLoop_once(rendered, regions, key, new_content, fuel) ==
    LET interpol == Interpol(key)
        interpol_len == Len(interpol)
        match == Find(rendered, interpol, cursor)
    IN IF match < 0 \/ new_content.kind = "tuple"
       THEN [status |-> "done", text |-> rendered, regions |-> regions, fuel |-> fuel]
       ELSE [status |-> "done",
             text |-> SubSeq(rendered, 1, match) \o new_content.text
                         \o SubSeq(rendered, match + interpol_len + 1, Len(rendered)),
             regions |-> Append(adjust(regions, match, interpol_len, ContentLen(new_content)),
                                [key |-> key, a |-> match,
                                 b |-> match + ContentLen(new_content)]),
             fuel |-> fuel]

\* the while loop for one key; fuel counts the substitutions still followed
RECURSIVE SubstLoop(_, _, _, _, _)
SubstLoop(rendered, regions, key, new_content, fuel) ==
    LET interpol == Interpol(key)
        interpol_len == Len(interpol)
        match == Find(rendered, interpol, cursor)
    IN IF match < 0
       THEN [status |-> "done", text |-> rendered, regions |-> regions, fuel |-> fuel]
       ELSE IF fuel = 0
       THEN [status |-> "diverged", text |-> rendered, regions |-> regions, fuel |-> 0]
       ELSE LET adjusted == adjust(regions, match, interpol_len, ContentLen(new_content))
                appended == Append(adjusted,
                                   [key |-> key, a |-> match,
                                    b |-> match + ContentLen(new_content)])
            IN IF new_content.kind = "tuple"
               THEN [status |-> "TypeError", text |-> rendered,
                     regions |-> appended, fuel |-> fuel]
               ELSE SubstLoop(SubSeq(rendered, 1, match) \o new_content.text
                                 \o SubSeq(rendered, match + interpol_len + 1, Len(rendered)),
                              appended, key, new_content, fuel - 1)

\* for key, new_content in keyed_content.items()
RECURSIVE KeyLoop(_, _, _, _, _)
KeyLoop(rendered, regions, kc, i, fuel) ==
    IF i > Len(kc)
    THEN [status |-> "done", text |-> rendered, regions |-> regions, fuel |-> fuel]
    ELSE LET r == SubstLoop(rendered, regions, kc[i].key, kc[i].value, fuel)
         IN IF r.status # "done" THEN r
            ELSE KeyLoop(r.text, r.regions, kc, i + 1, r.fuel)

\* A loop that returns makes at most one substitution for each placeholder of
\* the template and each of the keys "a", "b", "i", every value holding at
\* most one placeholder; a render that needs more than that and MaxSubst
\* further substitutions is one whose loop does not return.
Fuel == 3 * MaxSegs + MaxSubst

\* rendered = self.template; self.regions = []; the loop over keyed_content
RenderContent(template, kc) ==
    LET r == KeyLoop(template, <<>>, kc, 1, Fuel)
    IN [status |-> r.status, content |-> kc, text |-> r.text, regions |-> r.regions]

\* get_keyed_content followed by the substitution loop
RenderPure(template, parts, table, impl) ==
    LET c == get_keyed_content(parts, table, impl)
    IN IF c.exc # ""
       THEN [status |-> c.exc, content |-> c.kc, text |-> template, regions |-> <<>>]
       ELSE RenderContent(template, c.kc)

(***************************************************************************)
(* The host editor: views, their buffers and their named regions           *)
(***************************************************************************)
None == "None"

Windows == 1..NumWindows

\* view.add_regions / view.erase_regions keys
NsTag(key) == <<"git_savvy_interface.", key>>
RawTag(key) == <<key>>

erase_regions(vregions, tag) == { r \in vregions : r.tag # tag }

\* a set of regions under a key replaces the set already held under that key
add_regions(vregions, tag, a, b) ==
    erase_regions(vregions, tag) \cup {[tag |-> tag, a |-> a, b |-> b]}

\* where the host leaves a region when the text from lo to hi is replaced by
\* new_len characters: offsets before the replaced text stay, offsets after it
\* shift, offsets inside it move to the end of the new text
MovePoint(p, lo, hi, new_len) ==
    IF p <= lo THEN p
    ELSE IF p >= hi THEN p + new_len - (hi - lo)
    ELSE lo + new_len

\* view.replace(edit, sublime.Region(a, b), content)
view_replace(view, a, b, content) ==
    LET size == Len(view.text)
        clamp(p) == IF p < 0 THEN 0 ELSE IF p > size THEN size ELSE p
        lo == IF clamp(a) < clamp(b) THEN clamp(a) ELSE clamp(b)
        hi == IF clamp(a) < clamp(b) THEN clamp(b) ELSE clamp(a)
    IN [view EXCEPT
          !.text = SubSeq(view.text, 1, lo) \o content \o SubSeq(view.text, hi + 1, size),
          !.regions = { [r EXCEPT !.a = MovePoint(clamp(r.a), lo, hi, Len(content)),
                                  !.b = MovePoint(clamp(r.b), lo, hi, Len(content))]
                        : r \in view.regions }]

(***************************************************************************)
(* GsNewContentAndRegionsCommand.run                                       *)
(***************************************************************************)
\* for key, region_range in regions: self.view.add_regions(...)
RECURSIVE AddRegionsLoop(_, _)
AddRegionsLoop(vregions, regions) ==
    IF regions = <<>> THEN vregions
    ELSE AddRegionsLoop(add_regions(vregions, NsTag(Head(regions).key),
                                    Head(regions).a, Head(regions).b),
                        Tail(regions))

GsNewContentAndRegionsCommand_run(view, content, regions) ==
    LET replaced == view_replace(view, 0, Len(view.text), content)
    IN [replaced EXCEPT !.regions = AddRegionsLoop(@, regions), !.updates = 0]

(***************************************************************************)
(* GsUpdateRegionCommand.run                                               *)
(***************************************************************************)
\* view.get_regions(key): the regions held under the key, in buffer order
RECURSIVE SortRegions(_)
SortRegions(rs) ==
    IF rs = {} THEN <<>>
    ELSE LET r == CHOOSE x \in rs : \A y \in rs : x.a < y.a \/ (x.a = y.a /\ x.b <= y.b)
         IN <<r>> \o SortRegions(rs \ {r})

get_regions(view, tag) == SortRegions({ r \in view.regions : r.tag = tag })

\* for region in self.view.get_regions(key): self.view.replace(edit, region, content)
RECURSIVE UpdateLoop(_, _, _)
UpdateLoop(view, found, content) ==
    IF found = <<>> THEN view
    ELSE UpdateLoop(view_replace(view, Head(found).a, Head(found).b, content),
                    Tail(found), content)

GsUpdateRegionCommand_run(view, tag, content) ==
    [UpdateLoop(view, get_regions(view, tag), content) EXCEPT !.updates = @ + 1]

(***************************************************************************)
(* The Interface class.  Every interface type has the same template and    *)
(* one declared partial, "a"; its producer may name the nested producer    *)
(* for "i".                                                                *)
(***************************************************************************)
InterfaceTypes == {"status"}
RepoPaths == {None, "/repo"}

ClassTemplate == <<"{", "a", "}", "x", "{", "a", "}">>
ClassPartials == <<"a">>

\* A world is the part of the state a handler works on, with the exception
\* that ended the handler ("" for none), the number of render calls made and
\* the view it passed to window.focus_view or opened last (0 for none).
World ==
    [views |-> views, interfaces |-> interfaces, inst |-> inst,
     exc |-> "", renders |-> 0, focused |-> 0]

\* Interface.clear_regions
clear_regions(view, regions) ==
    [view EXCEPT !.regions =
        { r \in @ : \A n \in 1..Len(regions) : r.tag # RawTag(regions[n].key) }]

\* Interface.render, lines 94-101: clear_regions when regions are recorded,
\* then self.regions = []
render_clear(W, x) ==
    [W EXCEPT !.views[W.inst[x].view] =
                  IF W.inst[x].regions # <<>> THEN clear_regions(@, W.inst[x].regions)
                  ELSE @,
              !.inst[x].regions = <<>>,
              !.renders = @ + 1]

\* Interface.render, lines 103-117: r is what the substitution loop produced;
\* the regions it appended are in self.regions also when it raised
render_apply(W, x, r) ==
    IF r.status # "done"
    THEN [W EXCEPT !.inst[x].regions = r.regions, !.exc = r.status]
    ELSE [W EXCEPT !.views[W.inst[x].view] =
                       GsNewContentAndRegionsCommand_run(@, r.text, r.regions),
                   !.inst[x].regions = r.regions]

\* Interface.render, from line 102 on: c is what get_keyed_content produced
render_content(W, x, c) ==
    IF c.exc # "" THEN [W EXCEPT !.exc = c.exc]
    ELSE render_apply(W, x, RenderContent(ClassTemplate, c.kc))

\* Interface.render on instance x
render(W, x, table, impl) ==
    render_content(render_clear(W, x), x, get_keyed_content(ClassPartials, table, impl))

\* window.new_file() and the settings of the new view, lines 75-87
new_file(W, x, repo_path, window) ==
    [W EXCEPT !.views = Append(@, [open |-> TRUE, window |-> window,
                                   itype |-> W.inst[x].itype, repo |-> repo_path,
                                   text |-> <<>>, regions |-> {}, updates |-> 0]),
              !.interfaces = Append(@, 0),
              !.focused = Len(W.views) + 1,
              !.inst[x].view = Len(W.views) + 1]

\* Interface.create_view on instance x
create_view(W, x, repo_path, window, table, impl) ==
    render(new_file(W, x, repo_path, window), x, table, impl)

\* Interface.__new__: the instance returned, 0 with the exception set when the
\* registry lookup fails; a new instance is the next free identity
Matching(W, window, interface_type, repo_path) ==
    { v \in 1..Len(W.views) :
        /\ W.views[v].open
        /\ W.views[v].window = window
        /\ W.views[v].itype = interface_type
        /\ W.views[v].repo = repo_path }

\* __new__ without the search: every construction allocates an instance
new_fresh(W, window, interface_type, repo_path) ==
    [W |-> [W EXCEPT !.inst = Append(@, [initialized |-> FALSE, view |-> 0,
                                         regions |-> <<>>,
                                         itype |-> interface_type])],
     ret |-> Len(W.inst) + 1]

new(W, window, interface_type, repo_path) ==
    LET found == Matching(W, window, interface_type, repo_path)
        view == CHOOSE v \in found : \A u \in found : v <= u
    IN IF found # {}
       THEN IF W.interfaces[view] = 0
            THEN [W |-> [W EXCEPT !.focused = view, !.exc = "KeyError"], ret |-> 0]
            ELSE [W |-> [W EXCEPT !.focused = view], ret |-> W.interfaces[view]]
       ELSE [W |-> [W EXCEPT !.inst = Append(@, [initialized |-> FALSE, view |-> 0,
                                                 regions |-> <<>>,
                                                 itype |-> interface_type])],
             ret |-> Len(W.inst) + 1]

\* line 72: interfaces[self.view.id()] = self, reached when nothing raised
register(W, x) ==
    IF W.exc # "" THEN W ELSE [W EXCEPT !.interfaces[W.inst[x].view] = x]

\* __init__ without the _initialized test
init_again(W, x, repo_path, view, window, table, impl) ==
    register(IF view # 0
             THEN render([W EXCEPT !.inst[x].initialized = TRUE, !.inst[x].view = view],
                         x, table, impl)
             ELSE create_view([W EXCEPT !.inst[x].initialized = TRUE],
                              x, repo_path, window, table, impl),
             x)

\* Interface.__init__ on instance x; view is 0 for None
init(W, x, repo_path, view, window, table, impl) ==
    IF W.inst[x].initialized THEN W
    ELSE register(IF view # 0
                  THEN render([W EXCEPT !.inst[x].initialized = TRUE,
                                        !.inst[x].view = view],
                              x, table, impl)
                  ELSE create_view([W EXCEPT !.inst[x].initialized = TRUE],
                                   x, repo_path, window, table, impl),
                  x)

\* the outcome of a construction: W2 is the world __init__ left.  An instance
\* whose construction raised is referenced by nothing and is dropped.
constructed(W, x, W2) ==
    IF W2.exc # ""
    THEN [W |-> [W2 EXCEPT !.inst = SubSeq(@, 1, Len(W.inst))], ret |-> 0]
    ELSE [W |-> W2, ret |-> x]

\* __init__ on what __new__ returned, n
construct_init(W, n, repo_path, view, window, table, impl) ==
    IF n.W.exc # "" THEN [W |-> n.W, ret |-> 0]
    ELSE constructed(W, n.ret, init(n.W, n.ret, repo_path, view, window, table, impl))

\* InterfaceSubclass(repo_path=..., view=...): __new__, then __init__
construct(W, window, interface_type, repo_path, view, table, impl) ==
    construct_init(W, new(W, window, interface_type, repo_path),
                   repo_path, view, window, table, impl)

\* the instances registered for an open view with the given settings
Registered(interface_type, repo_path, windowSet) ==
    { interfaces[v] : v \in { u \in 1..Len(views) :
                                /\ views[u].open
                                /\ views[u].window \in windowSet
                                /\ views[u].itype = interface_type
                                /\ views[u].repo = repo_path
                                /\ interfaces[u] # 0 } }

NoSnapshot == [text |-> <<>>, vregions |-> {}, regions |-> <<>>]
Snapshot(x) ==
    [text |-> views[inst[x].view].text, vregions |-> views[inst[x].view].regions,
     regions |-> inst[x].regions]

NoOp ==
    [op |-> "none", view |-> 0, key |-> "", content |-> <<>>,
     exc |-> "", ret |-> 0, live |-> {}, liveHere |-> {}, newViews |-> 0, renders |-> 0,
     focused |-> 0, afterClose |-> FALSE, hadView |-> FALSE,
     afterRender |-> FALSE, before |-> NoSnapshot]

Commit(W) ==
    /\ views' = W.views
    /\ interfaces' = W.interfaces
    /\ inst' = W.inst

(***************************************************************************)
(* Handlers                                                                *)
(***************************************************************************)
\* a command constructs InterfaceSubclass(repo_path=repo_path)
Construct(interface_type, repo_path, table, impl) ==
    \E c \in {construct(World, activeWindow, interface_type, repo_path, 0, table, impl)} :
        /\ c.W.exc # "diverged"
        /\ Len(c.W.views) <= MaxViews
        /\ Commit(c.W)
        /\ last' = [NoOp EXCEPT
                      !.op = "construct",
                      !.exc = c.W.exc,
                      !.ret = c.ret,
                      !.live = Registered(interface_type, repo_path, Windows),
                      !.liveHere = Registered(interface_type, repo_path, {activeWindow}),
                      !.newViews = Len(c.W.views) - Len(views),
                      !.renders = c.W.renders,
                      !.focused = c.W.focused]
        /\ UNCHANGED <<activeWindow, tasks>>

\* the user brings another window to the front
SwitchWindow(w) ==
    /\ w # activeWindow
    /\ activeWindow' = w
    /\ last' = NoOp
    /\ UNCHANGED <<views, interfaces, inst, tasks>>

\* a closed view: its buffer and settings are gone
ClosedView ==
    [open |-> FALSE, window |-> 0, itype |-> None, repo |-> None, text |-> <<>>,
     regions |-> {}, updates |-> 0]

\* the user closes an interface view; GsInterfaceCloseCommand.run queues run_async
CloseView(v) ==
    /\ v \in 1..Len(views)
    /\ views[v].open
    /\ Len(tasks) < MaxTasks
    /\ views' = [views EXCEPT ![v] = ClosedView]
    /\ tasks' = Append(tasks, [kind |-> "close", view |-> v])
    /\ last' = NoOp
    /\ UNCHANGED <<activeWindow, interfaces, inst>>

\* an instance that nothing references any more
Collected == [initialized |-> FALSE, view |-> 0, regions |-> <<>>, itype |-> None]

\* run_async without the del statement
GsInterfaceCloseCommand_run_async_keep ==
    /\ tasks # <<>>
    /\ Head(tasks).kind = "close"
    /\ tasks' = Tail(tasks)
    /\ last' = NoOp
    /\ UNCHANGED <<activeWindow, views, interfaces, inst>>

\* GsInterfaceCloseCommand.run_async: the registry held the only reference to
\* the instance
GsInterfaceCloseCommand_run_async ==
    /\ tasks # <<>>
    /\ Head(tasks).kind = "close"
    /\ interfaces' = [interfaces EXCEPT ![Head(tasks).view] = 0]
    /\ inst' = IF interfaces[Head(tasks).view] = 0 THEN inst
                ELSE [inst EXCEPT ![interfaces[Head(tasks).view]] = Collected]
    /\ tasks' = Tail(tasks)
    /\ last' = NoOp
    /\ UNCHANGED <<activeWindow, views>>

\* GsInterfaceRefreshCommand.run on an open interface view
GsInterfaceRefreshCommand_run(v) ==
    /\ v \in 1..Len(views)
    /\ views[v].open
    /\ Len(tasks) < MaxTasks
    /\ tasks' = Append(tasks, [kind |-> "refresh", view |-> v])
    /\ last' = NoOp
    /\ UNCHANGED <<activeWindow, views, interfaces, inst>>

\* line 248: interfaces[interface.view.id()] = interface, c being what the
\* construction at line 247 produced
refresh_register(c) ==
    IF c.W.exc # "" THEN c
    ELSE [W |-> [c.W EXCEPT !.interfaces[c.W.inst[c.ret].view] = c.ret], ret |-> c.ret]

\* GsInterfaceRefreshCommand.run_async on view v: the world it leaves and the
\* interface it rendered or constructed.  The settings of a closed view hold
\* no interface type, so no subclass matches.
run_async_refresh(W, v, window, table, impl) ==
    IF ~W.views[v].open THEN [W |-> W, ret |-> 0]
    ELSE IF W.interfaces[v] # 0
    THEN [W |-> render(W, W.interfaces[v], table, impl), ret |-> W.interfaces[v]]
    ELSE refresh_register(construct(W, window, W.views[v].itype, None, v, table, impl))

\* the step of GsInterfaceRefreshCommand.run_async for its outcome r
refresh_async_step(r) ==
    /\ r.W.exc # "diverged"
    /\ Commit(r.W)
    /\ tasks' = Tail(tasks)
    /\ UNCHANGED activeWindow

GsInterfaceRefreshCommand_run_async(table, impl) ==
    /\ tasks # <<>>
    /\ Head(tasks).kind = "refresh"
    /\ \E r \in {run_async_refresh(World, Head(tasks).view, activeWindow, table, impl)} :
          /\ refresh_async_step(r)
          /\ last' = NoOp

\* the same handler, with what it did recorded for the view properties
GsInterfaceRefreshCommand_run_async_recorded(table, impl) ==
    /\ tasks # <<>>
    /\ Head(tasks).kind = "refresh"
    /\ \E r \in {run_async_refresh(World, Head(tasks).view, activeWindow, table, impl)} :
          /\ refresh_async_step(r)
          /\ last' = [NoOp EXCEPT
                        !.op = "refresh_async",
                        !.view = Head(tasks).view,
                        !.exc = r.W.exc,
                        !.ret = r.ret,
                        !.renders = r.W.renders,
                        !.before = IF /\ views[Head(tasks).view].open
                                      /\ interfaces[Head(tasks).view] # 0
                                   THEN Snapshot(interfaces[Head(tasks).view])
                                   ELSE NoSnapshot]

\* Interface.update(key, content) on a registered instance whose view is open
Update(x, key, content) ==
    /\ x \in 1..Len(inst)
    /\ \E v \in 1..Len(views) : interfaces[v] = x
    /\ views[inst[x].view].open
    /\ views[inst[x].view].updates < MaxUpdates
    /\ views' = [views EXCEPT ![inst[x].view] =
                    GsUpdateRegionCommand_run(@, NsTag(key), content)]
    /\ last' = [NoOp EXCEPT !.op = "update", !.view = inst[x].view, !.ret = x,
                            !.key = key, !.content = content,
                            !.afterRender = /\ last.op \in {"construct", "refresh_async"}
                                            /\ last.ret = x
                                            /\ last.exc = ""
                                            /\ last.renders > 0,
                            !.before = Snapshot(x)]
    /\ UNCHANGED <<activeWindow, interfaces, inst, tasks>>

\* no construction is in progress
\* get_keyed_content has not been called
NoContent == [status |-> "none", exc |-> "", kc |-> <<>>, calls |-> <<>>, impl |-> ""]

\* adjust has not been called
NoAdjust == [regions |-> <<>>, idx |-> 0, orig_len |-> 0, new_len |-> 0,
             out |-> <<>>, applied |-> FALSE]

NoMain == [pc |-> "idle", x |-> 0, afterClose |-> FALSE, hadView |-> FALSE]

\* the state after the plugin is loaded: no views, an empty registry
LifeStart ==
    /\ activeWindow = 1
    /\ views = <<>>
    /\ interfaces = <<>>
    /\ inst = <<>>
    /\ tasks = <<>>
    /\ last = NoOp
    /\ main = NoMain
    /\ adj = NoAdjust
    /\ keyed = NoContent

(***************************************************************************)
(* Inputs of the rendering specification                                   *)
(***************************************************************************)
Segs == { <<"{", "a", "}">>, <<"{", "b", "}">>, <<"{", "u", "}">>,
          <<"x">>, <<"{">>, <<"}">> }

Templates == { Concat(ss) : ss \in UNION { [1..n -> Segs] : n \in 0..MaxSegs } }

Values == { <<>>, <<"x">>, <<"b">>, <<"x", "x", "x", "x">>,
            <<"{", "b", "}">>, <<"{", "a", "}">> }

\* composite results of the producer for "a": a sub-template and its nested
\* producer, which is the producer for "b" or for the key "i" that is never
\* in the registry
Composites == { Tuple(<<"x", "{", "b", "}", "x">>, <<"b">>),
                Tuple(<<"x", "{", "i", "}", "x">>, <<"i">>) }

OutA == { Str(v) : v \in Values } \cup Composites
OutB == { Str(v) : v \in Values }
OutI == { Str(<<>>), Str(<<"x", "x">>) }

Tables == { [a |-> oa, b |-> ob, i |-> oi] : oa \in OutA, ob \in OutB, oi \in OutI }

Registries == { <<>>, <<"a">>, <<"b">>, <<"a", "b">>, <<"b", "a">> }

NoResult == [status |-> "none", content |-> <<>>, text |-> <<>>, regions |-> <<>>]

\* the other orders of a mapping's entries
Reorderings(kc) ==
    { [n \in 1..Len(kc) |-> kc[p[n]]] :
        p \in { q \in [1..Len(kc) -> 1..Len(kc)] :
                  /\ \A m, n \in 1..Len(kc) : m # n => q[m] # q[n]
                  /\ \E n \in 1..Len(kc) : q[n] # n } }

(***************************************************************************)
(* Rendering specification: one template, one registry, one table          *)
(***************************************************************************)
InitRender ==
    /\ tmpl \in Templates
    /\ partials \in Registries
    /\ tbl \in Tables
    /\ res = NoResult
    /\ res2 = NoResult
    /\ LifeStart

Render ==
    /\ res.status = "none"
    /\ \E impl \in OdictImpls : res' = RenderPure(tmpl, partials, tbl, impl)
    /\ UNCHANGED <<tmpl, partials, tbl, res2>>
    /\ UNCHANGED lvars

RenderReordered ==
    /\ res.status \notin {"none", "producer", "RuntimeError"}
    /\ res2.status = "none"
    /\ \E kc \in Reorderings(res.content) : res2' = RenderContent(tmpl, kc)
    /\ UNCHANGED <<tmpl, partials, tbl, res>>
    /\ UNCHANGED lvars

NextRender == Render \/ RenderReordered

SpecRender == InitRender /\ [][NextRender]_vars

(***************************************************************************)
(* Interface specification: constructions in the windows, view closes,     *)
(* refreshes and the asynchronous callbacks.  The producer for "a" returns *)
(* a string or raises.                                                     *)
(***************************************************************************)
LifeTables == { [a |-> Str(<<"x">>), b |-> Str(<<>>), i |-> Str(<<>>)],
                [a |-> Raise, b |-> Str(<<>>), i |-> Str(<<>>)] }

\* no producer of LifeTables returns a composite: the OrderedDict
\* implementations do not differ on them
LifeImpls == {"py"}

Init ==
    /\ tmpl = ClassTemplate
    /\ partials = ClassPartials
    /\ tbl = [a |-> Str(<<"x">>), b |-> Str(<<>>), i |-> Str(<<>>)]
    /\ res = NoResult
    /\ res2 = NoResult
    /\ LifeStart

Next ==
    \/ \E t \in InterfaceTypes, r \in RepoPaths, table \in LifeTables, impl \in LifeImpls :
          Construct(t, r, table, impl) /\ UNCHANGED ovars
    \/ \E w \in Windows : SwitchWindow(w) /\ UNCHANGED ovars
    \/ \E v \in 1..MaxViews : CloseView(v) /\ UNCHANGED ovars
    \/ GsInterfaceCloseCommand_run_async /\ UNCHANGED ovars
    \/ \E v \in 1..MaxViews : GsInterfaceRefreshCommand_run(v) /\ UNCHANGED ovars
    \/ \E table \in LifeTables, impl \in LifeImpls :
          GsInterfaceRefreshCommand_run_async(table, impl) /\ UNCHANGED ovars

Spec == Init /\ [][Next]_vars

(***************************************************************************)
(* View specification: one interface in one window, its producers          *)
(* returning strings, a composite or raising, with point updates.          *)
(***************************************************************************)
ViewTables ==
    { [a |-> oa, b |-> Str(<<>>), i |-> Str(<<"x", "x">>)] :
        oa \in { Str(<<>>), Str(<<"x">>), Str(<<"x", "x", "x", "x">>),
                 Tuple(<<"x", "{", "i", "}", "x">>, <<"i">>), Raise } }

NextView ==
    \/ \E table \in ViewTables, impl \in OdictImpls :
          Construct("status", "/repo", table, impl) /\ UNCHANGED ovars
    \/ \E v \in 1..MaxViews : GsInterfaceRefreshCommand_run(v) /\ UNCHANGED ovars
    \/ \E table \in ViewTables, impl \in OdictImpls :
          GsInterfaceRefreshCommand_run_async_recorded(table, impl) /\ UNCHANGED ovars
    \/ \E x \in 1..MaxViews, key \in {"a", "i"}, content \in {<<>>, <<"z">>} :
          Update(x, key, content) /\ UNCHANGED ovars

SpecView == Init /\ [][NextView]_vars

(***************************************************************************)
(* Interleaving specification: the construction of an interface runs on    *)
(* the main path in three steps (__new__ and the new view, the first       *)
(* render, the registration at line 72) while the callbacks queued by      *)
(* set_timeout_async run between them.  The user closes views and changes  *)
(* windows only while the main path is idle; a refresh of any open view    *)
(* can be requested at any time.  Every construction is for the pair       *)
(* ("status", "/repo").                                                    *)
(***************************************************************************)
\* GsInterfaceCloseCommand.run_async of view v has run to completion
CloseCompleted(v) ==
    /\ ~views[v].open
    /\ \A n \in 1..Len(tasks) : ~(tasks[n].kind = "close" /\ tasks[n].view = v)

\* what a construction finds when it begins
Begun(interface_type, repo_path) ==
    [afterClose |-> \E v \in 1..Len(views) : CloseCompleted(v),
     hadView |-> Matching(World, activeWindow, interface_type, repo_path) # {}]

\* Interface.__new__ and, for a new instance, __init__ up to the call of
\* render in create_view (lines 43-87)
ConstructBegin(interface_type, repo_path) ==
    /\ main.pc = "idle"
    /\ \E n \in {new(World, activeWindow, interface_type, repo_path)},
          b \in {Begun(interface_type, repo_path)} :
          IF n.W.exc # "" \/ n.W.inst[n.ret].initialized
          THEN /\ Commit(n.W)
               /\ main' = NoMain
               /\ last' = [NoOp EXCEPT !.op = "construct", !.exc = n.W.exc,
                                       !.ret = n.ret, !.focused = n.W.focused,
                                       !.afterClose = b.afterClose,
                                       !.hadView = b.hadView]
          ELSE /\ Len(views) < MaxViews
               /\ Commit(new_file([n.W EXCEPT !.inst[n.ret].initialized = TRUE],
                                  n.ret, repo_path, activeWindow))
               /\ main' = [pc |-> "render", x |-> n.ret,
                           afterClose |-> b.afterClose, hadView |-> b.hadView]
               /\ last' = NoOp
    /\ UNCHANGED <<activeWindow, tasks>>

\* self.render() in create_view, line 88; when it raises the construction
\* ends and nothing references the instance
ConstructRender(table, impl) ==
    /\ main.pc = "render"
    /\ \E W \in {render(World, main.x, table, impl)} :
          /\ W.exc # "diverged"
          /\ IF W.exc # ""
             THEN /\ Commit([W EXCEPT !.inst[main.x] = Collected])
                  /\ main' = NoMain
                  /\ last' = [NoOp EXCEPT !.op = "construct", !.exc = W.exc,
                                          !.newViews = 1, !.renders = 1,
                                          !.afterClose = main.afterClose,
                                          !.hadView = main.hadView]
             ELSE /\ Commit(W)
                  /\ main' = [main EXCEPT !.pc = "register"]
                  /\ last' = NoOp
    /\ UNCHANGED <<activeWindow, tasks>>

\* interfaces[self.view.id()] = self, line 72
ConstructRegister ==
    /\ main.pc = "register"
    /\ interfaces' = [interfaces EXCEPT ![inst[main.x].view] = main.x]
    /\ main' = NoMain
    /\ last' = [NoOp EXCEPT !.op = "construct", !.ret = main.x,
                            !.newViews = 1, !.renders = 1,
                            !.focused = inst[main.x].view,
                            !.afterClose = main.afterClose,
                            !.hadView = main.hadView]
    /\ UNCHANGED <<activeWindow, views, inst, tasks>>

NextRace ==
    \/ ConstructBegin("status", "/repo") /\ UNCHANGED <<rvars, adj, keyed>>
    \/ \E table \in LifeTables, impl \in LifeImpls :
          ConstructRender(table, impl) /\ UNCHANGED <<rvars, adj, keyed>>
    \/ ConstructRegister /\ UNCHANGED <<rvars, adj, keyed>>
    \/ \E v \in 1..MaxViews : main.pc = "idle" /\ CloseView(v) /\ UNCHANGED ovars
    \/ GsInterfaceCloseCommand_run_async /\ UNCHANGED ovars
    \/ \E v \in 1..MaxViews : GsInterfaceRefreshCommand_run(v) /\ UNCHANGED ovars
    \/ \E table \in LifeTables, impl \in LifeImpls :
          GsInterfaceRefreshCommand_run_async(table, impl) /\ UNCHANGED ovars

SpecRace == Init /\ [][NextRace]_vars

(***************************************************************************)
(* Adjuster specification: one call of Interface.adjust on a region list   *)
(***************************************************************************)
\* regions of length 0 or 1 starting at an offset up to MaxPos
Regions == { [key |-> "a", a |-> s, b |-> s + l] : s \in 0..MaxPos, l \in 0..1 }

RegionLists == UNION { [1..n -> Regions] : n \in 0..MaxRegions }

InitAdjust ==
    /\ tmpl = <<>>
    /\ partials = <<>>
    /\ tbl = [a |-> Str(<<>>), b |-> Str(<<>>), i |-> Str(<<>>)]
    /\ res = NoResult
    /\ res2 = NoResult
    /\ activeWindow = 1
    /\ views = <<>>
    /\ interfaces = <<>>
    /\ inst = <<>>
    /\ tasks = <<>>
    /\ last = NoOp
    /\ main = NoMain
    /\ keyed = NoContent
    /\ adj \in { [NoAdjust EXCEPT !.regions = R, !.idx = i, !.orig_len = o, !.new_len = l] :
                   R \in RegionLists,
                   i \in 0..MaxPos, o \in 0..MaxPos, l \in 0..MaxPos }

Adjust ==
    /\ ~adj.applied
    /\ adj' = [adj EXCEPT !.out = adjust(adj.regions, adj.idx, adj.orig_len, adj.new_len),
                          !.applied = TRUE]
    /\ UNCHANGED <<rvars, activeWindow, views, interfaces, inst, tasks, last, main, keyed>>

NextAdjust == Adjust

SpecAdjust == InitAdjust /\ [][NextAdjust]_vars

(***************************************************************************)
(* Content specification: one call of get_keyed_content, as render makes   *)
(* at line 102, with producers that nest up to three deep                  *)
(***************************************************************************)
\* what the producers for "a", "b" and "i" return: a string, or a composite
\* whose nested producer is another of the three
ContentTables ==
    [a : { Str(<<"x">>), Tuple(<<"{", "i", "}">>, <<"i">>), Tuple(<<"{", "b", "}">>, <<"b">>) },
     b : { Str(<<"x">>), Tuple(<<"{", "i", "}">>, <<"i">>) },
     i : { Str(<<"x">>), Tuple(<<"{", "b", "}">>, <<"b">>), Raise }]

InitContent ==
    /\ tmpl = <<>>
    /\ partials \in Registries
    /\ tbl \in ContentTables
    /\ res = NoResult
    /\ res2 = NoResult
    /\ LifeStart

ComputeContent ==
    /\ keyed.status = "none"
    /\ \E impl \in OdictImpls :
          \E c \in {get_keyed_content(partials, tbl, impl)} :
             keyed' = [status |-> "done", exc |-> c.exc, kc |-> c.kc,
                       calls |-> c.calls, impl |-> impl]
    /\ UNCHANGED <<rvars, activeWindow, views, interfaces, inst, tasks, last, main, adj>>

NextContent == ComputeContent

SpecContent == InitContent /\ [][NextContent]_vars

(***************************************************************************)
(* Vocabulary of the rendering properties                                  *)
(***************************************************************************)
Keys(kc) == { kc[n].key : n \in 1..Len(kc) }
ValueOf(kc, key) == (CHOOSE n \in 1..Len(kc) : kc[n].key = key)
TextOf(kc, key) == kc[ValueOf(kc, key)].value.text

\* number of occurrences of pat in text
CountOcc(text, pat) ==
    Cardinality({ i \in 0..(Len(text) - Len(pat)) :
                    SubSeq(text, i + 1, i + Len(pat)) = pat })

BraceFree(s) == \A n \in 1..Len(s) : s[n] \notin {"{", "}"}

\* every brace of t belongs to a token "{" identifier "}" with a brace-free
\* identifier: placeholders are not nested textually
RECURSIVE PlaceholdersOnly(_)
PlaceholdersOnly(t) ==
    IF t = <<>> THEN TRUE
    ELSE IF Head(t) = "}" THEN FALSE
    ELSE IF Head(t) # "{" THEN PlaceholdersOnly(Tail(t))
    ELSE \E j \in 2..Len(t) :
            /\ t[j] = "}"
            /\ BraceFree(SubSeq(t, 2, j - 1))
            /\ PlaceholdersOnly(SubSeq(t, j + 1, Len(t)))

\* no value holds a brace and the template's placeholders are not nested
FlatInput(template, kc) ==
    /\ PlaceholdersOnly(template)
    /\ \A n \in 1..Len(kc) : BraceFree(kc[n].value.text)

SingleOccurrence(template, kc) ==
    \A k \in Keys(kc) : CountOcc(template, Interpol(k)) <= 1

\* half-open ranges [a, b) share no offset
Disjoint(r1, r2) ==
    LET lo == IF r1.a > r2.a THEN r1.a ELSE r2.a
        hi == IF r1.b < r2.b THEN r1.b ELSE r2.b
    IN lo >= hi

RegionSet(r) == { r.regions[n] : n \in 1..Len(r.regions) }

\* one left-to-right pass over the original template: the text with every
\* placeholder of a mapping key replaced by the key's value, and the spans the
\* values occupy in it
RECURSIVE Reference(_, _, _, _)
Reference(t, kc, out, spans) ==
    IF t = <<>> THEN [text |-> out, spans |-> spans]
    ELSE IF /\ Len(t) >= 3 /\ t[1] = "{" /\ t[3] = "}" /\ t[2] \in Keys(kc)
         THEN LET v == TextOf(kc, t[2])
              IN Reference(SubSeq(t, 4, Len(t)), kc, out \o v,
                           spans \cup {[key |-> t[2], a |-> Len(out), b |-> Len(out) + Len(v)]})
         ELSE Reference(Tail(t), kc, Append(out, Head(t)), spans)

RegionsCorrect(r) ==
    \A n \in 1..Len(r.regions) :
        Slice(r.text, r.regions[n].a, r.regions[n].b) = TextOf(r.content, r.regions[n].key)

PairwiseDisjoint(r) ==
    \A m, n \in 1..Len(r.regions) : m # n => Disjoint(r.regions[m], r.regions[n])

SameOutcome(r1, r2) ==
    /\ r1.text = r2.text
    /\ RegionSet(r1) = RegionSet(r2)

MultiKeys(template, kc) ==
    { k \in Keys(kc) : CountOcc(template, Interpol(k)) >= 2 }

TaggedAt(r, k) == { n \in 1..Len(r.regions) : r.regions[n].key = k }

MultiOccurrenceHolds(template, r) ==
    LET ref == Reference(template, r.content, <<>>, {})
    IN \A k \in MultiKeys(template, r.content) :
          /\ Cardinality(TaggedAt(r, k)) = CountOcc(template, Interpol(k))
          /\ \A n \in TaggedAt(r, k) :
                /\ r.regions[n].b - r.regions[n].a = Len(TextOf(r.content, k))
                /\ Slice(r.text, r.regions[n].a, r.regions[n].b) = TextOf(r.content, k)
          /\ \A m, n \in TaggedAt(r, k) :
                m # n => Disjoint(r.regions[m], r.regions[n])
          /\ { r.regions[n] : n \in TaggedAt(r, k) } = { sp \in ref.spans : sp.key = k }
          /\ r.text = ref.text

IsComposite(o) == o.kind = "tuple"
InnerKey(o) == o.nested[1]
InnerAt(o) == Find(o.text, Interpol(InnerKey(o)), 0)

\* the sub-template with the inner placeholder replaced by the inner content
Flattened(o, inner) ==
    SubSeq(o.text, 1, InnerAt(o)) \o inner \o SubSeq(o.text, InnerAt(o) + 4, Len(o.text))

\* C9 as stated: when the producer for s returns (sub-template holding {i},
\* [producer for i]), one render yields a text that has, where the
\* placeholder of s was, the sub-template with {i} replaced by the content of
\* i, and records a region tagged i covering that content, whatever the
\* positions of the producers in the registry.
C9_CompositeFlattening ==
    (/\ res.status = "done"
     /\ "a" \in Keys([n \in 1..Len(partials) |-> [key |-> partials[n]]])
     /\ IsComposite(tbl.a))
        => \A n \in TaggedAt(res, "a") :
              LET s == res.regions[n].a
                  inner == tbl[InnerKey(tbl.a)].text
                  flat == Flattened(tbl.a, inner)
              IN /\ Slice(res.text, s, s + Len(flat)) = flat
                 /\ \E m \in TaggedAt(res, InnerKey(tbl.a)) :
                       /\ res.regions[m].a = s + InnerAt(tbl.a)
                       /\ res.regions[m].b = res.regions[m].a + Len(inner)

(***************************************************************************)
(* Vocabulary of the interface properties                                  *)
(***************************************************************************)
\* the settings of the view a construction returned an instance for
TypeOf(x) == views[inst[x].view].itype
RepoOf(x) == views[inst[x].view].repo

\* C3 as stated: after any sequence of constructions, active-window changes,
\* refreshes and view closes, at most one live instance (registered, its view
\* open) exists for each (interface type, repo path) pair.
C3_SingletonInvariant_Original ==
    \A t \in InterfaceTypes, r \in RepoPaths :
        Cardinality(Registered(t, r, Windows)) <= 1

\* C3 amended: after any such sequence, at most one live instance exists for
\* each (interface type, repo path) pair in each window.
C3_SingletonInvariant ==
    \A t \in InterfaceTypes, r \in RepoPaths, w \in Windows :
        Cardinality(Registered(t, r, {w})) <= 1

\* a construction has just returned the instance already live in the active
\* window while another window holds a live instance of the same pair
C3_Witness ==
    /\ last.op = "construct"
    /\ last.exc = ""
    /\ last.ret \in last.liveHere
    /\ \E w \in Windows \ {activeWindow} :
          Registered(TypeOf(last.ret), RepoOf(last.ret), {w}) # {}
    /\ Cardinality(Registered(TypeOf(last.ret), RepoOf(last.ret), {activeWindow})) = 1

\* the second construction returned the instance of the first and did nothing
\* else than focus its view
Reused(first) ==
    /\ last.exc = ""
    /\ last.ret \in first
    /\ last.newViews = 0
    /\ last.renders = 0
    /\ last.focused = inst[last.ret].view

\* C4 as stated: a construction with the (interface type, repo path) of a
\* live instance returns that instance, creates no view, performs no render,
\* does not initialise again and focuses the existing view.
C4_SingletonReuse_Original ==
    (last.op = "construct" /\ last.live # {}) => Reused(last.live)

\* C4 amended: the same, when the view of the live instance is in the window
\* that is active at the second construction.
C4_SingletonReuse ==
    (last.op = "construct" /\ last.liveHere # {}) => Reused(last.liveHere)

\* a second construction in the window of the first, whose view is rendered
\* and is the only view
C4_Witness ==
    /\ last.op = "construct"
    /\ last.liveHere # {}
    /\ Reused(last.liveHere)
    /\ Len(views) = 1
    /\ activeWindow = 1
    /\ views[1].window = 1
    /\ views[1].text # <<>>

\* the last step was a render that completed, on instance last.ret
CompletedRender ==
    /\ last.op \in {"construct", "refresh_async"}
    /\ last.exc = ""
    /\ last.renders > 0

\* the view keys of the regions an instance has recorded
RecordedTags(x) == { NsTag(inst[x].regions[n].key) : n \in 1..Len(inst[x].regions) }

\* C5: after a completed render the named regions the view holds are those
\* the most recent render recorded: no region remains in the view under a
\* key that the latest render did not record.
C5_NoStaleRegions ==
    CompletedRender =>
        \A r \in views[inst[last.ret].view].regions : r.tag \in RecordedTags(last.ret)

\* C6: when a producer fails during the render of a rendered interface, the
\* view's text, the view's named regions and the instance's recorded region
\* list are what they were before the render call.
C6_ComputeThenApply ==
    (last.op = "refresh_async" /\ last.exc = "producer" /\ last.ret # 0)
        => Snapshot(last.ret) = last.before

\* the spans recorded for key k
SpansOf(regions, k) ==
    { [a |-> regions[n].a, b |-> regions[n].b] :
        n \in { m \in 1..Len(regions) : regions[m].key = k } }

\* the text with every span replaced by the content, rightmost span first
RECURSIVE ReplaceSpans(_, _, _)
ReplaceSpans(text, spans, content) ==
    IF spans = {} THEN text
    ELSE LET sp == CHOOSE s \in spans : \A u \in spans : u.a <= s.a
         IN ReplaceSpans(SubSeq(text, 1, sp.a) \o content
                             \o SubSeq(text, sp.b + 1, Len(text)),
                         spans \ {sp}, content)

\* C10: after a render that recorded regions for key k, update(k, c) leaves
\* the buffer holding c in place of every span recorded for k and the text
\* outside those spans unchanged.
C10_PointUpdate ==
    (/\ last.op = "update"
     /\ last.afterRender
     /\ SpansOf(last.before.regions, last.key) # {})
        => views[last.view].text =
              ReplaceSpans(last.before.text, SpansOf(last.before.regions, last.key),
                           last.content)

(***************************************************************************)
(* Properties of the registry under the interleaving specification         *)
(***************************************************************************)
\* the registry holds no entry for a view whose close handler has completed
RemovedOnClose ==
    \A v \in 1..Len(views) : CloseCompleted(v) => interfaces[v] = 0

\* the construction that just ended created a new instance, registered under
\* its new view
CreatedAndRegistered ==
    /\ last.exc = ""
    /\ last.newViews = 1
    /\ views[inst[last.ret].view].open
    /\ interfaces[inst[last.ret].view] = last.ret

\* C11 as stated: once the close handler of a view has completed the registry
\* holds no entry for the view's id, and a later construction for the same
\* (interface type, repo path), when it completes, has created and registered
\* a new instance.
C11_RegistryLifecycle_Original ==
    /\ RemovedOnClose
    /\ (last.op = "construct" /\ last.afterClose /\ last.exc = "")
          => CreatedAndRegistered

\* C11 amended: the registry holds no entry for the view's id; a later
\* construction for the pair that completes returns an instance whose view is
\* open, and creates and registers a new instance when the active window
\* held no open view with the pair's settings.
C11_RegistryLifecycle ==
    /\ RemovedOnClose
    /\ (last.op = "construct" /\ last.afterClose /\ last.exc = "")
          => /\ views[inst[last.ret].view].open
             /\ ~last.hadView => CreatedAndRegistered

\* a view was closed, its close handler ran, and a construction begun after
\* that has registered a new instance under a new view
C11_Witness ==
    /\ last.op = "construct"
    /\ last.afterClose
    /\ ~last.hadView
    /\ CreatedAndRegistered
    /\ \E v \in 1..Len(views) : CloseCompleted(v) /\ v < inst[last.ret].view

(***************************************************************************)
(* C12: passthrough                                                        *)
(***************************************************************************)
\* the pieces of the template between the occurrences of "{k}" for the keys
\* k of the mapping, from left to right
RECURSIVE Literals(_, _, _, _)
Literals(t, kc, cur, acc) ==
    IF t = <<>> THEN Append(acc, cur)
    ELSE IF /\ Len(t) >= 3 /\ t[1] = "{" /\ t[3] = "}" /\ t[2] \in Keys(kc)
         THEN Literals(SubSeq(t, 4, Len(t)), kc, <<>>, Append(acc, cur))
         ELSE Literals(Tail(t), kc, Append(cur, Head(t)), acc)

\* out is the pieces in order, with any text between two consecutive pieces
RECURSIVE Fits(_, _)
Fits(out, lits) ==
    IF Len(lits) = 1 THEN out = lits[1]
    ELSE /\ Len(out) >= Len(lits[1])
         /\ SubSeq(out, 1, Len(lits[1])) = lits[1]
         /\ \E j \in Len(lits[1])..Len(out) :
               Fits(SubSeq(out, j + 1, Len(out)), Tail(lits))

\* the template holds a token "{" identifier "}"
HasPlaceholder(t) ==
    \E n \in 1..(Len(t) - 2) : t[n] = "{" /\ t[n + 2] = "}" /\ BraceFree(<<t[n + 1]>>)

\* the placeholders of identifiers without a content key are as many in the
\* output as in the template, at least
UnknownKept(r, t) ==
    \A id \in {"a", "b", "u", "i", "x"} \ Keys(r.content) :
        CountOcc(r.text, Interpol(id)) >= CountOcc(t, Interpol(id))

OnlyContentKeys(r) ==
    \A n \in 1..Len(r.regions) : r.regions[n].key \in Keys(r.content)

NoPlaceholderUnchanged(r, t) ==
    ~HasPlaceholder(t) => r.text = t /\ r.regions = <<>>

\* C12: a completed render leaves the text of the template outside the
\* occurrences of "{k}" for the keys k of the content mapping as it is, keeps
\* every placeholder without a content key verbatim and records no region for
\* it, and returns a template without placeholders unchanged with an empty
\* region list.
C12_Passthrough ==
    res.status = "done" =>
        /\ Fits(res.text, Literals(tmpl, res.content, <<>>, <<>>))
        /\ UnknownKept(res, tmpl)
        /\ OnlyContentKeys(res)
        /\ NoPlaceholderUnchanged(res, tmpl)

(***************************************************************************)
(* C13: registration race                                                  *)
(***************************************************************************)
\* C13: in every state reached by interleaving the steps of a construction on
\* the main path with the asynchronous refresh and close handlers, no two
\* distinct interface instances hold the same view, and the registry entry
\* of a view names an instance that holds that view.
C13_RegistrationRace ==
    /\ \A x, y \in 1..Len(inst) :
          (x # y /\ inst[x].view # 0) => inst[x].view # inst[y].view
    /\ \A v \in 1..Len(interfaces) :
          interfaces[v] # 0 => inst[interfaces[v]].view = v

(***************************************************************************)
(* C14: the adjuster                                                       *)
(***************************************************************************)
\* C14: adjust(R, i, orig_len, new_len) returns as many regions as R holds,
\* in the same order; a region whose start is <= i is unchanged, a region
\* whose start is > i has new_len - orig_len added to its start and to its
\* end, so every region keeps its length.
C14_AdjusterInvariant ==
    adj.applied =>
        /\ Len(adj.out) = Len(adj.regions)
        /\ \A n \in 1..Len(adj.regions) :
              /\ adj.out[n].key = adj.regions[n].key
              /\ adj.out[n].b - adj.out[n].a = adj.regions[n].b - adj.regions[n].a
              /\ IF adj.regions[n].a <= adj.idx
                 THEN adj.out[n] = adj.regions[n]
                 ELSE /\ adj.out[n].a = adj.regions[n].a + (adj.new_len - adj.orig_len)
                      /\ adj.out[n].b = adj.regions[n].b + (adj.new_len - adj.orig_len)

\* adjust has run on a list with a region starting at i before a region
\* starting after i, with a length that changes
C14_Witness ==
    /\ adj.applied
    /\ adj.new_len # adj.orig_len
    /\ Len(adj.regions) = 2
    /\ adj.regions[1].a = adj.idx
    /\ adj.regions[2].a > adj.idx
    /\ adj.regions[2].b > adj.regions[2].a
    /\ adj.out[2] # adj.regions[2]

(***************************************************************************)
(* C15: substituted values are not searched again                          *)
(***************************************************************************)
\* every registered producer returns a string
PlainContent == \A n \in 1..Len(partials) : tbl[partials[n]].kind = "str"

RegionsOf(r, k) == { n \in 1..Len(r.regions) : r.regions[n].key = k }

\* C15: when the producers return strings, the text of a completed render is
\* the template with each of its own occurrences of "{k}" replaced by the
\* value of k, so a "{k}" that arrives inside a value is in the output as it
\* was, and the regions recorded for k are as many as the occurrences of
\* "{k}" in the template.
C15_NoRescan ==
    (res.status = "done" /\ PlainContent) =>
        /\ res.text = Reference(tmpl, res.content, <<>>, {}).text
        /\ \A k \in Keys(res.content) :
              Cardinality(RegionsOf(res, k)) = CountOcc(tmpl, Interpol(k))

(***************************************************************************)
(* C16, C17: what one content computation expands and invokes              *)
(***************************************************************************)
RegisteredKeys == { partials[n] : n \in 1..Len(partials) }

\* the nested producers of the composites returned by registered producers
NestedKeys ==
    UNION { { tbl[k].nested[n] : n \in 1..Len(tbl[k].nested) } : k \in RegisteredKeys }

InvokedKeys == { keyed.calls[n] : n \in 1..Len(keyed.calls) }

\* C16: in a content computation that returns, a composite returned by a
\* producer that is nested only (not registered) is left in the mapping as
\* it was returned, and only registered producers and the nested producers
\* of their composites have been invoked.
C16_OneLevelExpansion ==
    (keyed.status = "done" /\ keyed.exc = "") =>
        /\ InvokedKeys \subseteq RegisteredKeys \cup NestedKeys
        /\ \A n \in 1..Len(keyed.kc) :
              (keyed.kc[n].key \notin RegisteredKeys /\ IsComposite(tbl[keyed.kc[n].key]))
                 => keyed.kc[n].value = tbl[keyed.kc[n].key]

\* C17: a content computation that returns has invoked the registered
\* producers first, in registry order, and has invoked no producer twice,
\* a nested producer that is also registered included; every nested
\* producer of a registered producer's composite has been invoked.
C17_SingleInvocation ==
    (keyed.status = "done" /\ keyed.exc = "") =>
        /\ SubSeq(keyed.calls, 1, Len(partials)) = partials
        /\ \A m, n \in 1..Len(keyed.calls) : m # n => keyed.calls[m] # keyed.calls[n]
        /\ NestedKeys \subseteq InvokedKeys

(***************************************************************************)
(* C18: termination of the substitution loop                               *)
(***************************************************************************)
\* C18: for every template and every content mapping, a value that holds
\* its own key's placeholder or another key's placeholder and empty values
\* included, the substitution loop of render returns: no render is still
\* substituting when the substitutions a returning loop can make, and
\* MaxSubst more, are used up.
C18_RenderTermination == res.status # "diverged"

(***************************************************************************)
(* C19: registry and views                                                 *)
(***************************************************************************)
\* C19: after any sequence of constructions, refreshes and close handlers,
\* renders aborted by a failing producer included, every open view of the
\* active window that carries the interface settings has a registry entry,
\* and no construction has failed with a missing entry.
C19_RegistryViewConsistency ==
    /\ \A v \in 1..Len(views) :
          (views[v].open /\ views[v].window = activeWindow /\ views[v].itype # None)
             => interfaces[v] # 0
    /\ last.exc # "KeyError"

====
